---- MODULE Spec2Model ----
(***************************************************************************)
(* Model of homebridge-rinnai-heater (src/src/platformAccessory.ts): the   *)
(* Rinnai API client (state cache lastState, getState,                     *)
(* setTargetTemperature, setPowerState), its temperature tables and the    *)
(* telemetry decoder, run against a heater that answers the HTTP requests. *)
(***************************************************************************)
EXTENDS Integers, Sequences, FiniteSets, TLC

(***************************************************************************)
(* JavaScript values that are not numbers.                                 *)
(***************************************************************************)
\* `undefined`: an array read outside the table, a missing parameter.
Undefined == -1
\* `NaN`: parseInt of a missing or non-numeric field.
NaN == -2
\* `null`: the empty cache slot (let lastState = null).
Null == [null |-> TRUE]

\* JavaScript truthiness of a number-or-undefined value, as tested by `!x`.
Truthy(x) == x # Undefined /\ x # NaN /\ x # 0

(***************************************************************************)
(* Bounds of the model.                                                    *)
(***************************************************************************)
\* Requested temperatures reach ReqBelow degrees under the lowest and ReqAbove
\* degrees over the highest supported temperature, so that clamping happens.
ReqBelow == 1
ReqAbove == 1
\* The heater's raw target-temperature index reaches DevAbove positions past
\* the plugin's table (the heater itself goes on to 46 degrees and more).
DevAbove == 1
\* Successful inc/dec steps counted per setTargetTemperature call; a call
\* issues no further step once it has counted this many.
MaxStepOk == 11
\* The values given to parseTargetTemperatureToRange alone reach ReqFarBelow
\* under the lowest supported temperature (to 0 and below) and ReqFarAbove
\* over the highest.
ReqFarBelow == 37
ReqFarAbove == 5
\* The raw indices given to parseRinnaiTemperature alone run from 0 to
\* RawAbove past the last index of the table.
RawAbove == 6

(***************************************************************************)
(* utils: the temperature tables and the two mappers.                      *)
(***************************************************************************)
AVAILABLE_TEMPERATURES == <<35, 36, 37, 38, 39, 40, 41, 42, 43, 44, 45>>
\* Mutation of RINNAI_STATE_TEMPERATURES: the entry 46, commented out in the
\* source, is in the table.
RINNAI_STATE_TEMPERATURES_With46 == <<35, 36, 37, 38, 39, 40, 41, 42, 43, 44, 45, 46>>

RINNAI_STATE_TEMPERATURES == <<35, 36, 37, 38, 39, 40, 41, 42, 43, 44, 45>>

\* arr[index] of a JavaScript array (0-based): undefined outside the array.
At(arr, index) ==
  IF index \in 0..(Len(arr) - 1) THEN arr[index + 1] ELSE Undefined

\* arr.includes(x)
Includes(arr, x) == \E i \in 1..Len(arr) : arr[i] = x

\* AVAILABLE_TEMPERATURES.find((_, index) => AVAILABLE_TEMPERATURES[index + 1] > temperature):
\* the first element whose successor exceeds temperature (undefined > x is false).
FindNextAvailable(temperature) ==
  LET hits == {i \in 0..(Len(AVAILABLE_TEMPERATURES) - 1) :
                 /\ At(AVAILABLE_TEMPERATURES, i + 1) # Undefined
                 /\ At(AVAILABLE_TEMPERATURES, i + 1) > temperature}
  IN IF hits = {} THEN Undefined
     ELSE At(AVAILABLE_TEMPERATURES, CHOOSE i \in hits : \A j \in hits : i <= j)

\* Mutation of parseTargetTemperatureToRange: the clamp to the highest
\* temperature is missing.
parseTargetTemperatureToRange_NoUpperClamp(temperature) ==
  LET t1 == IF Includes(AVAILABLE_TEMPERATURES, temperature)
            THEN temperature ELSE Undefined
      t2 == IF ~Truthy(t1) THEN FindNextAvailable(temperature) ELSE t1
      lowestTemp == At(AVAILABLE_TEMPERATURES, 0)
  IN IF ~Truthy(t2) /\ temperature < lowestTemp THEN lowestTemp ELSE t2

parseTargetTemperatureToRange(temperature) ==
  LET t1 == IF Includes(AVAILABLE_TEMPERATURES, temperature)
            THEN temperature ELSE Undefined
      t2 == IF ~Truthy(t1) THEN FindNextAvailable(temperature) ELSE t1
      lowestTemp == At(AVAILABLE_TEMPERATURES, 0)
      highestTemp == At(AVAILABLE_TEMPERATURES, Len(AVAILABLE_TEMPERATURES) - 1)
      t3 == IF ~Truthy(t2) /\ temperature < lowestTemp THEN lowestTemp ELSE t2
      t4 == IF ~Truthy(t2) /\ temperature > highestTemp THEN highestTemp ELSE t3
  IN t4

\* Mutation of parseRinnaiTemperature: the offset is 2 instead of 3.
parseRinnaiTemperature_Offset2(rinnaiTemp) ==
  IF rinnaiTemp = NaN THEN Undefined
  ELSE At(RINNAI_STATE_TEMPERATURES, rinnaiTemp - 2)

\* const index = +rinnaiTemp - 3; return RINNAI_STATE_TEMPERATURES[index]
\* (an array read at NaN is undefined).
parseRinnaiTemperature(rinnaiTemp) ==
  IF rinnaiTemp = NaN THEN Undefined
  ELSE At(RINNAI_STATE_TEMPERATURES, rinnaiTemp - 3)

Targets ==
  (At(AVAILABLE_TEMPERATURES, 0) - ReqBelow)
    .. (At(AVAILABLE_TEMPERATURES, Len(AVAILABLE_TEMPERATURES) - 1) + ReqAbove)

\* The raw indices the heater can show: 3 is the table's first entry.
DevIdx == 3..(3 + (Len(RINNAI_STATE_TEMPERATURES) - 1) + DevAbove)

(***************************************************************************)
(* The telemetry line: comma-separated fields, here the sequence that      *)
(* split(',') yields. Field 0 is the power code, field 2 the heating flag, *)
(* field 7 the raw target-temperature index, in decimal.                   *)
(***************************************************************************)
Digit == <<"0", "1", "2", "3", "4", "5", "6", "7", "8", "9">>

\* The decimal text of a number 0..99, as the heater prints field 7.
IntToStr(n) ==
  IF n < 10 THEN Digit[n + 1]
  ELSE Digit[(n \div 10) + 1] \o Digit[(n % 10) + 1]

\* parseInt(s, 10) of a field: NaN for a missing field or a non-number.
parseInt(s) ==
  IF \E n \in 0..99 : IntToStr(n) = s
  THEN CHOOSE n \in 0..99 : IntToStr(n) = s
  ELSE NaN

\* params[i] of the split line (0-based); a missing field is undefined.
Field(params, i) == IF i \in 0..(Len(params) - 1) THEN params[i + 1] ELSE "undefined"

parseStateParams(params) ==
  LET temperature == parseInt(Field(params, 7))
  IN [targetTemperature |-> parseRinnaiTemperature(temperature),
      isHeating         |-> Field(params, 2) = "1",
      isPoweredOn       |-> Field(params, 0) # "11"]

(***************************************************************************)
(* State.                                                                  *)
(***************************************************************************)
VARIABLES
  devIdx,     \* the heater: raw target-temperature index it shows
  devOn,      \* the heater: powered on
  devHeat,    \* the heater: burner running
  lastState,  \* rinnaiApi: the cache slot (let lastState)
  net,        \* per caller, the HTTP request or response in flight
  st,         \* the setTargetTemperature call: position and arguments
  gs,         \* the getState call made by an accessory handler
  pw,         \* the setPowerState call
  hist,       \* history of the setTargetTemperature call, read by the properties only
  pwHist,     \* history of the setPowerState calls, read by the properties only
  conv,       \* the setTargetTemperature calls started by handleTargetTemperatureSet
  poll,       \* the accessory: position of pollForStateUpdates
  currentState, \* the accessory: this.currentState
  util        \* one application of a decoder or mapper: its argument and result

vars == <<devIdx, devOn, devHeat, lastState, net, st, gs, pw, hist, pwHist,
          conv, poll, currentState, util>>

\* The setTargetTemperature calls that handleTargetTemperatureSet has started
\* and that may run at the same time.
Convs == {"c1", "c2"}

\* Whoever awaits a request: the three calls made on the API one at a time,
\* the accessory's poll loop and the calls its set handler started.
Procs == {"st", "gs", "pw", "poll"} \cup Convs

\* const MaxRetries: the literal of `retries < 5`.
MaxRetries == 5

NoMsg == [k |-> "none", ep |-> "none", data |-> <<>>]
Request(ep) == [k |-> "req", ep |-> ep, data |-> <<>>]
Response(ep, data) == [k |-> "resp", ep |-> ep, data |-> data]

\* A request of p is outstanding: not yet served, or served and unanswered.
InFlight(p) == net[p].k \in {"req", "resp"}

(***************************************************************************)
(* The heater. It serves one request at a time: inc and dec move the       *)
(* target by one index within its range, lig toggles the power, and every  *)
(* answer is the full-state line taken after the command.                  *)
(***************************************************************************)
DeviceLine(idx, on, heat) ==
  <<IF on THEN "10" ELSE "11", "0", IF heat THEN "1" ELSE "0",
    "0", "0", "0", "0", IntToStr(idx)>>

DeviceIdxAfter(ep, idx) ==
  CASE ep = "inc" -> IF idx + 1 \in DevIdx THEN idx + 1 ELSE idx
    [] ep = "dec" -> IF idx - 1 \in DevIdx THEN idx - 1 ELSE idx
    [] OTHER -> idx

DeviceOnAfter(ep, on) == IF ep = "lig" THEN ~on ELSE on

DeviceServe(p) ==
  /\ net[p].k = "req"
  /\ devIdx' = DeviceIdxAfter(net[p].ep, devIdx)
  /\ devOn' = DeviceOnAfter(net[p].ep, devOn)
  /\ devHeat' = (devHeat /\ devOn')
  /\ net' = [net EXCEPT ![p] = Response(net[p].ep, DeviceLine(devIdx', devOn', devHeat'))]
  /\ hist' = [hist EXCEPT !.moved = @ /\ (net[p].ep \in {"inc", "dec"} => devIdx' # devIdx)]
  /\ UNCHANGED <<lastState, st, gs, pw, pwHist, conv, poll, currentState, util>>

(***************************************************************************)
(* setTargetTemperature(target, retries = 0, lastTargetTemp).              *)
(* A frame holds the arguments of the running invocation and where it      *)
(* waits: "read" (await getState(true)), "step" (await rinnaiApi(inc|dec)),*)
(* "delay" (await delay(100)), "done" (returned), "failed" (threw).        *)
(***************************************************************************)
StIdle ==
  [pc |-> "idle", target |-> 0, retries |-> 0, lastTargetTemp |-> Undefined,
   req |-> "none", result |-> Null, error |-> "none"]

Await(pc, target, retries, lastTargetTemp, req) ==
  [pc |-> pc, target |-> target, retries |-> retries,
   lastTargetTemp |-> lastTargetTemp, req |-> req, result |-> Null, error |-> "none"]

\* return lastState
Returned(target, retries, lastTargetTemp, ls) ==
  [pc |-> "done", target |-> target, retries |-> retries,
   lastTargetTemp |-> lastTargetTemp, req |-> "none", result |-> ls, error |-> "none"]

\* throw new Error('Max number of retries reached.')
Thrown(target, retries, lastTargetTemp) ==
  [pc |-> "failed", target |-> target, retries |-> retries,
   lastTargetTemp |-> lastTargetTemp, req |-> "none", result |-> Null,
   error |-> "Max number of retries reached."]

\* Mutation of Reached: the comparison is >= instead of ===.
Reached_AtOrAbove(targetTemperatureInRange, currentTargetTemp) ==
  currentTargetTemp >= targetTemperatureInRange

\* targetTemperatureInRange === currentTargetTemp
Reached(targetTemperatureInRange, currentTargetTemp) ==
  targetTemperatureInRange = currentTargetTemp

\* Mutation of StepOperation: the comparison is < instead of >.
StepOperation_Swapped(currentTargetTemp, targetTemperatureInRange) ==
  IF currentTargetTemp < targetTemperatureInRange THEN "dec" ELSE "inc"

\* const operation = currentTargetTemp > targetTemperatureInRange ? 'dec' : 'inc'
StepOperation(currentTargetTemp, targetTemperatureInRange) ==
  IF currentTargetTemp > targetTemperatureInRange THEN "dec" ELSE "inc"

\* Mutation of RetriesAfterStep: retries is passed on instead of 0.
RetriesAfterStep_Kept(retries) == retries

\* return setTargetTemperature(target, 0, currentTargetTemp): the retries
\* of the invocation that follows an answered step.
RetriesAfterStep(retries) == 0

\* Mutation of MayRetry: the comparison is <= instead of <.
MayRetry_Inclusive(retries) == retries <= MaxRetries

\* catch (e): if (retries < 5) retry with retries + 1
MayRetry(retries) == retries < MaxRetries

RECURSIVE Body(_, _, _, _)
RECURSIVE Decide(_, _, _, _, _)
RECURSIVE Catch(_, _, _, _)

\* Mutation of Decide: the early return at the reached target is missing.
Decide_NoEarlyReturn(target, retries, lastTargetTemp, currentTargetTemp, ls) ==
  IF ~Truthy(currentTargetTemp)
  THEN Catch(target, retries, lastTargetTemp, ls)
  ELSE Await("step", target, retries, lastTargetTemp,
             StepOperation(currentTargetTemp, parseTargetTemperatureToRange(target)))

\* The catch block: whatever was thrown inside the try, call again with
\* retries + 1 and the same lastTargetTemp, or give up.
Catch(target, retries, lastTargetTemp, ls) ==
  IF MayRetry(retries)
  THEN Body(target, retries + 1, lastTargetTemp, ls)
  ELSE Thrown(target, retries, lastTargetTemp)

\* From the check of currentTargetTemp to the step request.
Decide(target, retries, lastTargetTemp, currentTargetTemp, ls) ==
  LET targetTemperatureInRange == parseTargetTemperatureToRange(target)
  IN IF ~Truthy(currentTargetTemp)
     THEN Catch(target, retries, lastTargetTemp, ls)
     ELSE IF Reached(targetTemperatureInRange, currentTargetTemp)
     THEN Returned(target, retries, lastTargetTemp, ls)
     ELSE Await("step", target, retries, lastTargetTemp,
                StepOperation(currentTargetTemp, targetTemperatureInRange))

\* From the entry of one invocation to its first await, return or throw.
Body(target, retries, lastTargetTemp, ls) ==
  LET targetTemperatureInRange == parseTargetTemperatureToRange(target)
  IN IF ~Truthy(targetTemperatureInRange)
     THEN Catch(target, retries, lastTargetTemp, ls)
     ELSE IF ~Truthy(lastTargetTemp)
     THEN Await("read", target, retries, lastTargetTemp, "tela_")
     ELSE Decide(target, retries, lastTargetTemp, lastTargetTemp, ls)

\* The request a frame sends when it starts to wait, if any.
Outgoing(frame) == IF frame.req = "none" THEN NoMsg ELSE Request(frame.req)

\* Mutation of CacheAfterError: the cache is invalidated on an error.
CacheAfterError_Cleared(ls) == Null

\* A rejected await and the catch block assign nothing to lastState.
CacheAfterError(ls) == ls

\* Nothing of the client is running: no call is between its start and its return.
Quiet == st.pc = "idle" /\ gs.pc = "idle" /\ pw.pc = "idle"

(***************************************************************************)
(* History of one setTargetTemperature call.                               *)
(*   nStepOk     inc/dec requests answered and decoded                     *)
(*   stepped     an inc/dec request was sent                               *)
(*   consec      requests that failed since the last answered inc/dec (or  *)
(*               since the call started): the failures on the current step *)
(*   sawUnknown  a forced read answered with no known target temperature   *)
(*   atCached    the call's argument was the cached targetTemperature      *)
(*   moved       every inc/dec that the heater served moved its target     *)
(*   clean       no request of the call has failed                         *)
(* and, kept only while the call is clean:                                 *)
(*   startTemp   the target temperature of the call's first answered read  *)
(*   nStepReq    inc/dec requests sent                                     *)
(*   incs, decs  an inc (a dec) request was sent                           *)
(***************************************************************************)
HistInit ==
  [nStepOk |-> 0, stepped |-> FALSE, consec |-> 0, sawUnknown |-> FALSE,
   atCached |-> FALSE, moved |-> TRUE, clean |-> TRUE, startTemp |-> Undefined,
   nStepReq |-> 0, incs |-> FALSE, decs |-> FALSE]

\* The history after frame f was entered: a step request may have been sent.
Sent(h, f) ==
  IF f.pc = "step"
  THEN [h EXCEPT !.stepped = TRUE,
                 !.nStepReq = IF h.clean THEN @ + 1 ELSE 0,
                 !.incs = h.clean /\ (@ \/ f.req = "inc"),
                 !.decs = h.clean /\ (@ \/ f.req = "dec")]
  ELSE h

\* The history after a request of the call has failed.
Failed(h) ==
  [h EXCEPT !.consec = @ + 1, !.clean = FALSE, !.startTemp = Undefined,
            !.nStepReq = 0, !.incs = FALSE, !.decs = FALSE]

(***************************************************************************)
(* History of a pair of setPowerState calls that follow each other.        *)
(*   calls   calls started (a third call, or a setTargetTemperature call   *)
(*           in between, starts a new pair)                                *)
(*   first   the argument of the first call                                *)
(*   same    the second call had the argument of the first                 *)
(*   ligs    lig requests sent by the calls of the pair                    *)
(*   pure    no request of the pair failed, and nobody used the heater's   *)
(*           power button since the first call started                     *)
(***************************************************************************)
PwHistInit == [calls |-> 0, first |-> FALSE, same |-> TRUE, ligs |-> 0, pure |-> TRUE]

StCall(t) ==
  /\ st.pc = "idle"
  /\ LET f == Body(t, 0, Undefined, lastState)
     IN /\ st' = f
        /\ net' = [net EXCEPT !["st"] = Outgoing(f)]
        /\ hist' = Sent([HistInit EXCEPT !.atCached =
                           (lastState # Null /\ lastState.targetTemperature = t)], f)
  /\ pwHist' = PwHistInit
  /\ UNCHANGED <<devIdx, devOn, devHeat, lastState, gs, pw, conv, poll, currentState, util>>

\* The forced read of the call is answered: getState stores the decoded state,
\* and the call goes on to its step request, its return or its throw.
StReadOk ==
  /\ st.pc = "read"
  /\ net["st"].k = "resp"
  /\ LET ls == parseStateParams(net["st"].data)
         f == Decide(st.target, st.retries, st.lastTargetTemp, ls.targetTemperature, ls)
     IN /\ lastState' = ls
        /\ st' = f
        /\ net' = [net EXCEPT !["st"] = Outgoing(f)]
        /\ hist' = Sent([hist EXCEPT
                           !.sawUnknown = @ \/ ~Truthy(ls.targetTemperature),
                           !.startTemp = IF hist.clean /\ @ = Undefined
                                        THEN ls.targetTemperature ELSE @],
                        f)
  /\ UNCHANGED <<devIdx, devOn, devHeat, gs, pw, pwHist, conv, poll, currentState, util>>

\* The step request is answered: the decoded state is stored, and the call
\* returns it or waits 100 ms before the next invocation (retries 0).
StStepOk ==
  /\ st.pc = "step"
  /\ net["st"].k = "resp"
  /\ LET parsedParams == parseStateParams(net["st"].data)
         currentTargetTemp == parsedParams.targetTemperature
     IN /\ lastState' = parsedParams
        /\ st' = IF Reached(parseTargetTemperatureToRange(st.target), currentTargetTemp)
                 THEN Returned(st.target, st.retries, st.lastTargetTemp, parsedParams)
                 ELSE Await("delay", st.target, RetriesAfterStep(st.retries),
                            currentTargetTemp, "none")
  /\ net' = [net EXCEPT !["st"] = NoMsg]
  /\ hist' = [hist EXCEPT !.nStepOk = @ + 1, !.consec = 0]
  /\ UNCHANGED <<devIdx, devOn, devHeat, gs, pw, pwHist, conv, poll, currentState, util>>

\* The delay is over: setTargetTemperature(target, 0, currentTargetTemp).
StAfterDelay ==
  /\ st.pc = "delay"
  /\ hist.nStepOk < MaxStepOk
  /\ LET f == Body(st.target, st.retries, st.lastTargetTemp, lastState)
     IN /\ st' = f
        /\ net' = [net EXCEPT !["st"] = Outgoing(f)]
        /\ hist' = Sent(hist, f)
  /\ UNCHANGED <<devIdx, devOn, devHeat, lastState, gs, pw, pwHist, conv, poll, currentState, util>>

\* The awaited request fails (the request or its answer is lost, or the
\* answer cannot be decoded): the catch block runs.
StFail ==
  /\ st.pc \in {"read", "step"}
  /\ InFlight("st")
  /\ lastState' = CacheAfterError(lastState)
  /\ LET f == Catch(st.target, st.retries, st.lastTargetTemp, lastState')
     IN /\ st' = f
        /\ net' = [net EXCEPT !["st"] = Outgoing(f)]
        /\ hist' = Sent(Failed(hist), f)
  /\ UNCHANGED <<devIdx, devOn, devHeat, gs, pw, pwHist, conv, poll, currentState, util>>

\* The caller has the result or the error.
StReturn ==
  /\ st.pc \in {"done", "failed"}
  /\ st' = StIdle
  /\ hist' = HistInit
  /\ UNCHANGED <<devIdx, devOn, devHeat, lastState, net, gs, pw, pwHist, conv, poll, currentState, util>>

(***************************************************************************)
(* getState(ignoreCache = false), as the accessory's handlers call it.     *)
(***************************************************************************)
GsIdle ==
  [pc |-> "idle", ignoreCache |-> FALSE, result |-> Null, requests |-> 0,
   hadCache |-> FALSE]

\* Mutation of ServedFromCache: ignoreCache is not looked at.
ServedFromCache_IgnoresFlag(ls, ignoreCache) == ls # Null

\* if (lastState && !ignoreCache) return lastState
ServedFromCache(ls, ignoreCache) == ls # Null /\ ~ignoreCache

GsCall(ignoreCache) ==
  /\ gs.pc = "idle"
  /\ IF ServedFromCache(lastState, ignoreCache)
     THEN /\ gs' = [pc |-> "done", ignoreCache |-> ignoreCache, result |-> lastState,
                    requests |-> 0, hadCache |-> lastState # Null]
          /\ net' = net
     ELSE /\ gs' = [pc |-> "wait", ignoreCache |-> ignoreCache, result |-> Null,
                    requests |-> 1, hadCache |-> lastState # Null]
          /\ net' = [net EXCEPT !["gs"] = Request("tela_")]
  /\ UNCHANGED <<devIdx, devOn, devHeat, lastState, st, pw, hist, pwHist, conv, poll, currentState, util>>

GsOk ==
  /\ gs.pc = "wait"
  /\ net["gs"].k = "resp"
  /\ lastState' = parseStateParams(net["gs"].data)
  /\ gs' = [gs EXCEPT !.pc = "done", !.result = lastState']
  /\ net' = [net EXCEPT !["gs"] = NoMsg]
  /\ UNCHANGED <<devIdx, devOn, devHeat, st, pw, hist, pwHist, conv, poll, currentState, util>>

GsFail ==
  /\ gs.pc = "wait"
  /\ InFlight("gs")
  /\ lastState' = CacheAfterError(lastState)
  /\ gs' = [gs EXCEPT !.pc = "failed"]
  /\ net' = [net EXCEPT !["gs"] = NoMsg]
  /\ UNCHANGED <<devIdx, devOn, devHeat, st, pw, hist, pwHist, conv, poll, currentState, util>>

GsReturn ==
  /\ gs.pc \in {"done", "failed"}
  /\ gs' = GsIdle
  /\ UNCHANGED <<devIdx, devOn, devHeat, lastState, net, st, pw, hist, pwHist, conv, poll, currentState, util>>

(***************************************************************************)
(* The heater's own panel: somebody sets another target temperature.       *)
(***************************************************************************)
DevicePanelTemp ==
  /\ \E i \in DevIdx : i # devIdx /\ devIdx' = i
  /\ UNCHANGED <<devOn, devHeat, lastState, net, st, gs, pw, hist, pwHist, conv, poll, currentState, util>>

(***************************************************************************)
(* setPowerState(turnOn). "read": await getState() on an empty cache;      *)
(* "lig": await rinnaiApi('/lig').                                         *)
(***************************************************************************)
\* The value `true` that setPowerState returns when there is nothing to do.
TrueValue == [true |-> TRUE]

PwIdle == [pc |-> "idle", turnOn |-> FALSE, req |-> "none", result |-> Null]

\* if (isPoweredOn === turnOn) return true
AlreadyThere(isPoweredOn, turnOn) == isPoweredOn = turnOn

\* From the state that getState() gave to the toggle request or the return.
PwDecide(state, turnOn) ==
  IF AlreadyThere(state.isPoweredOn, turnOn)
  THEN [pc |-> "done", turnOn |-> turnOn, req |-> "none", result |-> TrueValue]
  ELSE [pc |-> "lig", turnOn |-> turnOn, req |-> "lig", result |-> Null]

PwStarted(h, turnOn) ==
  IF h.calls = 0
  THEN [h EXCEPT !.calls = 1, !.first = turnOn]
  ELSE [h EXCEPT !.calls = @ + 1, !.same = (turnOn = h.first)]

PwSent(h, f) == IF f.pc = "lig" THEN [h EXCEPT !.ligs = @ + 1] ELSE h

PwCall(turnOn) ==
  /\ pw.pc = "idle"
  /\ LET f == IF ServedFromCache(lastState, FALSE)
              THEN PwDecide(lastState, turnOn)
              ELSE [pc |-> "read", turnOn |-> turnOn, req |-> "tela_", result |-> Null]
         h == IF pwHist.calls = 2 THEN PwHistInit ELSE pwHist
     IN /\ pw' = f
        /\ net' = [net EXCEPT !["pw"] = Outgoing(f)]
        /\ pwHist' = PwSent(PwStarted(h, turnOn), f)
  /\ UNCHANGED <<devIdx, devOn, devHeat, lastState, st, gs, hist, conv, poll, currentState, util>>

\* getState() on the empty cache is answered: the decoded state is stored.
PwReadOk ==
  /\ pw.pc = "read"
  /\ net["pw"].k = "resp"
  /\ lastState' = parseStateParams(net["pw"].data)
  /\ LET f == PwDecide(lastState', pw.turnOn)
     IN /\ pw' = f
        /\ net' = [net EXCEPT !["pw"] = Outgoing(f)]
        /\ pwHist' = PwSent(pwHist, f)
  /\ UNCHANGED <<devIdx, devOn, devHeat, st, gs, hist, conv, poll, currentState, util>>

\* The toggle is answered: lastState = state; return lastState.
PwLigOk ==
  /\ pw.pc = "lig"
  /\ net["pw"].k = "resp"
  /\ lastState' = parseStateParams(net["pw"].data)
  /\ pw' = [pw EXCEPT !.pc = "done", !.req = "none", !.result = lastState']
  /\ net' = [net EXCEPT !["pw"] = NoMsg]
  /\ UNCHANGED <<devIdx, devOn, devHeat, st, gs, hist, pwHist, conv, poll, currentState, util>>

\* A request of setPowerState fails: nothing catches it, the call throws.
PwFail ==
  /\ pw.pc \in {"read", "lig"}
  /\ InFlight("pw")
  /\ lastState' = CacheAfterError(lastState)
  /\ pw' = [pw EXCEPT !.pc = "failed", !.req = "none"]
  /\ net' = [net EXCEPT !["pw"] = NoMsg]
  /\ pwHist' = [pwHist EXCEPT !.pure = FALSE]
  /\ UNCHANGED <<devIdx, devOn, devHeat, st, gs, hist, conv, poll, currentState, util>>

PwReturn ==
  /\ pw.pc \in {"done", "failed"}
  /\ pw' = PwIdle
  /\ UNCHANGED <<devIdx, devOn, devHeat, lastState, net, st, gs, hist, pwHist, conv, poll, currentState, util>>

(***************************************************************************)
(* The heater's own panel: somebody presses its power button.              *)
(***************************************************************************)
DevicePanelPower ==
  /\ devOn' = ~devOn
  /\ devHeat' = (devHeat /\ devOn')
  /\ pwHist' = IF pwHist.calls \in {1, 2} THEN [pwHist EXCEPT !.pure = FALSE] ELSE pwHist
  /\ UNCHANGED <<devIdx, lastState, net, st, gs, pw, hist, conv, poll, currentState, util>>

\* No accessory has been constructed: nothing polls.
PollOff == [pc |-> "off", requests |-> 0, last |-> "none"]

\* No decoder or mapper is being applied.
UtilIdle == [fn |-> "none", arg |-> <<>>, pc |-> "idle", result |-> Null]

\* The API module right after it was loaded, used without the accessory.
Init ==
  /\ devIdx \in DevIdx
  /\ devOn \in BOOLEAN
  /\ devHeat = FALSE
  /\ lastState = Null
  /\ net = [p \in Procs |-> NoMsg]
  /\ st = StIdle
  /\ gs = GsIdle
  /\ pw = PwIdle
  /\ hist = HistInit
  /\ pwHist = PwHistInit
  /\ conv = [c \in Convs |-> StIdle]
  /\ poll = PollOff
  /\ currentState = Null
  /\ util = UtilIdle

\* One operation at a time, against a heater whose temperature is also set
\* at its panel between the operations.
Next ==
  \/ \E t \in Targets : Quiet /\ StCall(t)
  \/ StReadOk
  \/ StStepOk
  \/ StAfterDelay
  \/ StFail
  \/ StReturn
  \/ \E ic \in BOOLEAN : Quiet /\ GsCall(ic)
  \/ GsOk
  \/ GsFail
  \/ GsReturn
  \/ \E b \in BOOLEAN : Quiet /\ PwCall(b)
  \/ PwReadOk
  \/ PwLigOk
  \/ PwFail
  \/ PwReturn
  \/ \E p \in Procs : DeviceServe(p)
  \/ Quiet /\ DevicePanelTemp

Spec == Init /\ [][Next]_vars

\* The power path alone: getState and setPowerState, one at a time, against
\* a heater whose power button is also pressed between the operations.
NextPower ==
  \/ \E ic \in BOOLEAN : Quiet /\ GsCall(ic)
  \/ GsOk
  \/ GsFail
  \/ GsReturn
  \/ \E b \in BOOLEAN : Quiet /\ PwCall(b)
  \/ PwReadOk
  \/ PwLigOk
  \/ PwFail
  \/ PwReturn
  \/ \E p \in Procs : DeviceServe(p)
  \/ Quiet /\ DevicePanelPower

SpecPower == Init /\ [][NextPower]_vars

(***************************************************************************)
(* RinnaiHeaterAccessory: the poll loop and the set handler.               *)
(*   poll.pc        "wait": await getState(true); "sleep": the 3000 ms     *)
(*                  timer runs                                             *)
(*   poll.requests  requests of the loop that are not settled yet          *)
(*   poll.last      how the last poll ended: "ok", "failed", or "none"     *)
(*   conv[c]        the frame of a setTargetTemperature call that the set  *)
(*                  handler started and did not await                      *)
(***************************************************************************)
\* The values HomeKit sends to the set handler (minValue 35, maxValue 45,
\* minStep 1).
SetValues == 35..45

ConvSeq == <<"c1", "c2">>

Running(c) == conv[c].pc \in {"read", "step", "delay"}

\* The slot of the next call: the first one that holds no call.
FreeConv ==
  LET free == {i \in 1..Len(ConvSeq) : conv[ConvSeq[i]].pc = "idle"}
  IN ConvSeq[CHOOSE i \in free : \A j \in free : i <= j]

\* The constructor has run: pollForStateUpdates() is at await getState(true),
\* its tela_ request sent; this.currentState = null.
InitAccessory ==
  /\ devIdx \in DevIdx
  /\ devOn = TRUE
  /\ devHeat = FALSE
  /\ lastState = Null
  /\ net = [p \in Procs |-> IF p = "poll" THEN Request("tela_") ELSE NoMsg]
  /\ st = StIdle
  /\ gs = GsIdle
  /\ pw = PwIdle
  /\ hist = HistInit
  /\ pwHist = PwHistInit
  /\ conv = [c \in Convs |-> StIdle]
  /\ poll = [pc |-> "wait", requests |-> 1, last |-> "none"]
  /\ currentState = Null
  /\ util = UtilIdle

\* Mutation of AfterPollError: the rejected await is not caught, the loop ends.
AfterPollError_Uncaught(pc) == "stopped"

\* catch (e) { console.error(...) }: the loop goes on to its timer.
AfterPollError(pc) == "sleep"

\* const newState = await getState(true) is answered: getState stores the
\* decoded state, the loop keeps it as this.currentState and starts its timer.
PollOk ==
  /\ poll.pc = "wait"
  /\ net["poll"].k = "resp"
  /\ lastState' = parseStateParams(net["poll"].data)
  /\ currentState' = lastState'
  /\ poll' = [pc |-> "sleep", requests |-> poll.requests - 1, last |-> "ok"]
  /\ net' = [net EXCEPT !["poll"] = NoMsg]
  /\ UNCHANGED <<devIdx, devOn, devHeat, st, gs, pw, hist, pwHist, conv, util>>

\* The poll's request fails: the catch block logs, nothing is assigned.
PollFail ==
  /\ poll.pc = "wait"
  /\ InFlight("poll")
  /\ lastState' = CacheAfterError(lastState)
  /\ poll' = [pc |-> AfterPollError(poll.pc), requests |-> poll.requests - 1,
              last |-> "failed"]
  /\ net' = [net EXCEPT !["poll"] = NoMsg]
  /\ UNCHANGED <<devIdx, devOn, devHeat, st, gs, pw, hist, pwHist, conv, currentState, util>>

\* The 3000 ms are over: this.pollForStateUpdates() sends the next request.
PollWake ==
  /\ poll.pc = "sleep"
  /\ poll' = [poll EXCEPT !.pc = "wait", !.requests = @ + 1]
  /\ net' = [net EXCEPT !["poll"] = Request("tela_")]
  /\ UNCHANGED <<devIdx, devOn, devHeat, lastState, st, gs, pw, hist, pwHist, conv, currentState, util>>

\* handleTargetTemperatureSet(value): setTargetTemperature(value) is started
\* and not awaited; the handler returns at once.
HandleTargetTemperatureSet(value) ==
  /\ \E c \in Convs : conv[c].pc = "idle"
  /\ LET c == FreeConv
         f == Body(value, 0, Undefined, lastState)
     IN /\ conv' = [conv EXCEPT ![c] = f]
        /\ net' = [net EXCEPT ![c] = Outgoing(f)]
  /\ UNCHANGED <<devIdx, devOn, devHeat, lastState, st, gs, pw, hist, pwHist, poll, currentState, util>>

\* The forced read of call c is answered.
ConvReadOk(c) ==
  /\ conv[c].pc = "read"
  /\ net[c].k = "resp"
  /\ LET ls == parseStateParams(net[c].data)
         f == Decide(conv[c].target, conv[c].retries, conv[c].lastTargetTemp,
                     ls.targetTemperature, ls)
     IN /\ lastState' = ls
        /\ conv' = [conv EXCEPT ![c] = f]
        /\ net' = [net EXCEPT ![c] = Outgoing(f)]
  /\ UNCHANGED <<devIdx, devOn, devHeat, st, gs, pw, hist, pwHist, poll, currentState, util>>

\* The step request of call c is answered.
ConvStepOk(c) ==
  /\ conv[c].pc = "step"
  /\ net[c].k = "resp"
  /\ LET parsedParams == parseStateParams(net[c].data)
         currentTargetTemp == parsedParams.targetTemperature
         f == IF Reached(parseTargetTemperatureToRange(conv[c].target), currentTargetTemp)
              THEN Returned(conv[c].target, conv[c].retries, conv[c].lastTargetTemp,
                            parsedParams)
              ELSE Await("delay", conv[c].target, RetriesAfterStep(conv[c].retries),
                         currentTargetTemp, "none")
     IN /\ lastState' = parsedParams
        /\ conv' = [conv EXCEPT ![c] = f]
  /\ net' = [net EXCEPT ![c] = NoMsg]
  /\ UNCHANGED <<devIdx, devOn, devHeat, st, gs, pw, hist, pwHist, poll, currentState, util>>

\* The 100 ms of call c are over: setTargetTemperature(target, 0, currentTargetTemp).
ConvAfterDelay(c) ==
  /\ conv[c].pc = "delay"
  /\ LET f == Body(conv[c].target, conv[c].retries, conv[c].lastTargetTemp, lastState)
     IN /\ conv' = [conv EXCEPT ![c] = f]
        /\ net' = [net EXCEPT ![c] = Outgoing(f)]
  /\ UNCHANGED <<devIdx, devOn, devHeat, lastState, st, gs, pw, hist, pwHist, poll, currentState, util>>

\* The promise of call c is settled; nobody awaits it.
ConvSettle(c) ==
  /\ conv[c].pc \in {"done", "failed"}
  /\ conv' = [conv EXCEPT ![c] = StIdle]
  /\ UNCHANGED <<devIdx, devOn, devHeat, lastState, net, st, gs, pw, hist, pwHist, poll, currentState, util>>

\* The accessory with a user who sets a temperature only when the call of
\* the last one has ended; the requests of these calls are all answered,
\* those of the poll loop may fail. The timer of the poll loop fires.
NextPoll ==
  \/ PollOk
  \/ PollFail
  \/ PollWake
  \/ \E v \in SetValues : (\A c \in Convs : conv[c].pc = "idle") /\ HandleTargetTemperatureSet(v)
  \/ \E c \in Convs : ConvReadOk(c)
  \/ \E c \in Convs : ConvStepOk(c)
  \/ \E c \in Convs : ConvAfterDelay(c)
  \/ \E c \in Convs : ConvSettle(c)
  \/ \E p \in Procs : DeviceServe(p)

SpecPoll == InitAccessory /\ [][NextPoll]_vars /\ WF_vars(PollWake)

\* The values set while another call may be running: the lowest, the
\* highest and one in between.
SetValuesTwo == {35, 38, 45}

\* The set handler and the calls it starts: the user sets a temperature
\* twice, at any time, and every request of the two calls is answered. A
\* call that has ended keeps its slot, so no third call follows. The poll
\* loop is left at its first request: it reads and writes nothing that
\* decides what these calls do.
NextTwo ==
  \/ \E v \in SetValuesTwo : HandleTargetTemperatureSet(v)
  \/ \E c \in Convs : ConvReadOk(c)
  \/ \E c \in Convs : ConvStepOk(c)
  \/ \E c \in Convs : ConvAfterDelay(c)
  \/ \E c \in Convs : DeviceServe(c)

\* Fair scheduling: the heater answers every request of these calls, the
\* event loop runs every continuation that is ready, every timer fires.
FairTwo ==
  \A c \in Convs :
    /\ WF_vars(ConvReadOk(c) \/ ConvStepOk(c) \/ ConvAfterDelay(c))
    /\ WF_vars(DeviceServe(c))

SpecTwo == InitAccessory /\ [][NextTwo]_vars /\ FairTwo

(***************************************************************************)
(* The two mappers of utils, applied to one argument each.                 *)
(***************************************************************************)
Requests ==
  (At(AVAILABLE_TEMPERATURES, 0) - ReqFarBelow)
    .. (At(AVAILABLE_TEMPERATURES, Len(AVAILABLE_TEMPERATURES) - 1) + ReqFarAbove)

RawIndexes == {NaN} \cup (0 .. (3 + (Len(RINNAI_STATE_TEMPERATURES) - 1) + RawAbove))

UtilCall(fn, arg) == [fn |-> fn, arg |-> arg, pc |-> "call", result |-> Null]

InitUtils ==
  /\ devIdx = 3
  /\ devOn = TRUE
  /\ devHeat = FALSE
  /\ lastState = Null
  /\ net = [p \in Procs |-> NoMsg]
  /\ st = StIdle
  /\ gs = GsIdle
  /\ pw = PwIdle
  /\ hist = HistInit
  /\ pwHist = PwHistInit
  /\ conv = [c \in Convs |-> StIdle]
  /\ poll = PollOff
  /\ currentState = Null
  /\ util \in {UtilCall("parseTargetTemperatureToRange", t) : t \in Requests}
              \cup {UtilCall("parseRinnaiTemperature", r) : r \in RawIndexes}

ApplyParseTargetTemperatureToRange ==
  /\ util.pc = "call"
  /\ util.fn = "parseTargetTemperatureToRange"
  /\ util' = [util EXCEPT !.pc = "done", !.result = parseTargetTemperatureToRange(util.arg)]
  /\ UNCHANGED <<devIdx, devOn, devHeat, lastState, net, st, gs, pw, hist, pwHist, conv, poll, currentState>>

ApplyParseRinnaiTemperature ==
  /\ util.pc = "call"
  /\ util.fn = "parseRinnaiTemperature"
  /\ util' = [util EXCEPT !.pc = "done", !.result = parseRinnaiTemperature(util.arg)]
  /\ UNCHANGED <<devIdx, devOn, devHeat, lastState, net, st, gs, pw, hist, pwHist, conv, poll, currentState>>

NextUtils ==
  \/ ApplyParseTargetTemperatureToRange
  \/ ApplyParseRinnaiTemperature

SpecUtils == InitUtils /\ [][NextUtils]_vars

(***************************************************************************)
(* A heater (or something on the way) that answers with a damaged line:    *)
(* cut short, empty, or with something else than a number in field 7.      *)
(***************************************************************************)
\* What split(',') yields for the damaged forms of a line.
Garbled(line) ==
  {SubSeq(line, 1, k) : k \in 1..(Len(line) - 1)}
    \cup {<<"">>}
    \cup {[line EXCEPT ![8] = f] : f \in {"", "x"}}

\* The heater executes the request, and the answer arrives damaged.
DeviceServeGarbled(p) ==
  /\ net[p].k = "req"
  /\ devIdx' = DeviceIdxAfter(net[p].ep, devIdx)
  /\ devOn' = DeviceOnAfter(net[p].ep, devOn)
  /\ devHeat' = (devHeat /\ devOn')
  /\ \E g \in Garbled(DeviceLine(devIdx', devOn', devHeat')) :
       net' = [net EXCEPT ![p] = Response(net[p].ep, g)]
  /\ UNCHANGED <<lastState, st, gs, pw, hist, pwHist, conv, poll, currentState, util>>

\* getState and setPowerState, one at a time, against such a heater.
NextGarbled ==
  \/ \E ic \in BOOLEAN : Quiet /\ GsCall(ic)
  \/ GsOk
  \/ GsFail
  \/ GsReturn
  \/ \E b \in BOOLEAN : Quiet /\ PwCall(b)
  \/ PwReadOk
  \/ PwLigOk
  \/ PwFail
  \/ PwReturn
  \/ \E p \in Procs : DeviceServe(p)
  \/ \E p \in Procs : DeviceServeGarbled(p)

SpecGarbled == Init /\ [][NextGarbled]_vars

(***************************************************************************)
(* Properties.                                                             *)
(***************************************************************************)
\* The mapped request of the running setTargetTemperature call.
Desired == parseTargetTemperatureToRange(st.target)

Abs(x) == IF x < 0 THEN -x ELSE x

\* C1: whenever setTargetTemperature has returned (it did not throw), the
\* state it returned is the cached state, and its targetTemperature is the
\* mapped request, whatever the heater showed at the start and whichever
\* requests failed on the way.
C1_ReturnsCachedStateAtTarget ==
  st.pc = "done" =>
    /\ st.result # Null
    /\ st.result = lastState
    /\ st.result.targetTemperature = Desired

\* A call that returned after failed requests and several steps.
C1_Witness == st.pc = "done" /\ ~hist.clean /\ hist.nStepOk >= 2

\* C2: one setTargetTemperature call, nothing else in flight, against a
\* heater whose inc and dec each move the target by one unit, has at most 10
\* inc/dec requests answered before it returns or throws, whichever requests
\* fail.
C2_AtMostTenAnsweredSteps ==
  hist.moved => hist.nStepOk <= Len(AVAILABLE_TEMPERATURES) - 1

\* C3: six failed requests on one step make the call throw; a step answered
\* after four failures does not, and the invocation that follows it starts
\* with retries 0; retries counts the failures of the current step only, so
\* a call throws on request failures alone only with six of them on one step.
C3_Counting ==
  /\ hist.consec >= 6 => st.pc = "failed"
  /\ (st.pc \in {"read", "step", "delay"} /\ ~hist.sawUnknown) => st.retries = hist.consec
  /\ (st.pc = "failed" /\ ~hist.sawUnknown) => hist.consec = 6

C3_AnsweredAfterFour ==
  (st.pc = "step" /\ hist.consec = 4 /\ hist'.nStepOk = hist.nStepOk + 1)
    => /\ st'.pc \in {"delay", "done"}
       /\ st'.pc = "delay" => st'.retries = 0
       /\ hist'.consec = 0

\* C3: the failure count is per step in every state, and every step answered
\* after four failures restarts it at zero without throwing.
C3_RetriesPerStep == [](C3_Counting) /\ [][C3_AnsweredAfterFour]_vars

\* After an answered step, the next step has failed five times and is
\* tried once more.
C3_Witness == hist.nStepOk >= 1 /\ hist.consec = 5 /\ st.pc = "step"

\* C4, as claimed: a step is tried at most 5 times in a row, and the call
\* has thrown once 5 requests in a row have failed.
C4_FiveAttempts ==
  /\ st.pc \in {"read", "step"} => hist.consec + 1 <= 5
  /\ hist.consec >= 5 => st.pc = "failed"

\* C4, amended: a step is tried at most 6 times in a row (the first try and
\* 5 retries), and the call has thrown once 6 requests in a row have failed:
\* there is no 7th try.
C4_SixAttempts ==
  /\ st.pc \in {"read", "step"} => hist.consec + 1 <= 6
  /\ hist.consec >= 6 => st.pc = "failed"

\* The call threw on the sixth failure in a row.
C4_Witness == st.pc = "failed" /\ hist.consec = 6 /\ hist.nStepOk = 0

\* The error that says the current target temperature is unknown.
StateUnavailable == "Could not get current target temp from state, fail."

\* C5: when the forced read reports no known target temperature, the call
\* ends with the state-unavailable error, which is not the max-retries
\* error, and it has sent no inc/dec request.
C5_FailsWithStateUnavailable ==
  (hist.sawUnknown /\ ~hist.stepped /\ st.pc \in {"done", "failed"})
    => st.pc = "failed" /\ st.error = StateUnavailable

\* C6, as claimed: a call whose argument is the targetTemperature held in
\* the cache sends no inc/dec request, whatever the heater shows.
C6_NoStepAtCachedTarget == hist.atCached => ~hist.stepped

\* C6, amended: when the call's forced read reports the mapped request as
\* the heater's target temperature, the call returns the cached state (the
\* one just read) at once and sends no inc/dec request, whatever the cache
\* held before the call.
C6_NoStepAtReportedTargetStep ==
  (/\ st.pc = "read"
   /\ ~hist.stepped
   /\ net["st"].k = "resp"
   /\ parseStateParams(net["st"].data).targetTemperature = Desired
   /\ st' # st
   /\ hist'.consec = hist.consec)
    => /\ st'.pc = "done"
       /\ st'.result = lastState'
       /\ lastState' = parseStateParams(net["st"].data)
       /\ ~hist'.stepped

\* C6, amended: every step that handles such a forced read returns the state
\* just cached, no inc/dec request sent.
C6_NoStepAtReportedTarget == [][C6_NoStepAtReportedTargetStep]_vars

\* The call returned without a step; the cache held another temperature
\* than the requested one when it was called.
C6_Witness ==
  /\ st.pc = "done"
  /\ ~hist.stepped
  /\ ~hist.atCached
  /\ hist.startTemp = Desired
  /\ Desired = st.target

\* C7: while no request has failed, the call sends inc only when the mapped
\* request is above the temperature it started from and dec only when it is
\* below, never more than |desired - start| of them, and exactly that many
\* when it returns.
C7_ExactStepsOneDirection ==
  (hist.clean /\ hist.startTemp # Undefined) =>
    /\ Desired > hist.startTemp => ~hist.decs
    /\ Desired < hist.startTemp => ~hist.incs
    /\ Desired = hist.startTemp => ~hist.stepped
    /\ hist.nStepReq <= Abs(Desired - hist.startTemp)
    /\ st.pc = "done" => hist.nStepReq = Abs(Desired - hist.startTemp)
    /\ st.pc # "failed"

\* Three inc requests took the heater to the request.
C7_Witness ==
  /\ st.pc = "done"
  /\ hist.clean
  /\ hist.nStepReq = 3
  /\ hist.incs
  /\ Desired = hist.startTemp + 3

\* C8: getState(false) on a populated cache returns the cached state, sends
\* no request and does not fail; getState(true) sends one tela_ request,
\* populated cache or not.
C8_CacheHitAndForcedRead ==
  /\ (gs.pc # "idle" /\ ~gs.ignoreCache /\ gs.hadCache)
       => gs.pc = "done" /\ gs.requests = 0 /\ gs.result = lastState
  /\ (gs.pc # "idle" /\ gs.ignoreCache) => gs.requests = 1
  /\ gs.pc = "wait" => (InFlight("gs") /\ net["gs"].ep = "tela_")
  /\ (gs.pc # "idle" /\ gs.requests = 0) => ~InFlight("gs")

\* A forced read on a populated cache is waiting for its answer.
C8_Witness == gs.pc = "wait" /\ gs.ignoreCache /\ gs.hadCache

\* A request of some call fails in this step.
RequestFails ==
  \/ hist'.consec = hist.consec + 1
  \/ gs.pc = "wait" /\ gs'.pc = "failed"
  \/ pw.pc \in {"read", "lig"} /\ pw'.pc = "failed"

\* C9: a failed request (read, step or toggle) leaves the cache as it was;
\* the cache changes only when an answer is decoded and stored, so a call
\* that throws has written nothing since its last answered request; a
\* populated cache is never emptied.
C9_CacheStep ==
  /\ RequestFails => lastState' = lastState
  /\ lastState' # lastState =>
       \E p \in Procs : /\ net[p].k = "resp"
                        /\ lastState' = parseStateParams(net[p].data)
                        /\ ~RequestFails
  /\ lastState # Null => lastState' # Null

C10_AtMostOneToggle ==
  (pwHist.same /\ pwHist.pure) => pwHist.ligs <= 1

\* A line that is not a full-state line: fewer than 8 fields, or no number
\* in field 7.
Malformed(params) == Len(params) < 8 \/ parseInt(Field(params, 7)) = NaN

\* C11: the answer to a request is a malformed line; when the caller has
\* taken it, the cache is what it was before (the decoder failed with a
\* ParseError and nothing was stored).
C11_MalformedNotCachedStep ==
  \A p \in Procs :
    (net[p].k = "resp" /\ Malformed(net[p].data) /\ net'[p].k # "resp")
      => lastState' = lastState

\* C11: no step stores the decoding of a malformed line in the cache.
C11_MalformedNeverCached == [][C11_MalformedNotCachedStep]_vars

\* C12: the cache is empty, or its targetTemperature is unknown or one of
\* 35..45, whatever was read, stepped and toggled and whatever index the
\* heater showed.
C12_CachedTemperatureSupported ==
  lastState # Null =>
    \/ lastState.targetTemperature = Undefined
    \/ lastState.targetTemperature \in 35..45

\* A step was answered and the cache holds the highest supported temperature.
C12_Witness ==
  /\ lastState # Null
  /\ hist.nStepOk >= 1
  /\ lastState.targetTemperature = 45

\* C13: parseTargetTemperatureToRange gives v for v in 35..45, 35 for every
\* integer below 35 (0 and the negative ones too) and 45 for every integer
\* above 45: always a supported temperature, never undefined.
C13_MapsIntoSupportedRange ==
  (util.fn = "parseTargetTemperatureToRange" /\ util.pc = "done") =>
    /\ util.arg \in 35..45 => util.result = util.arg
    /\ util.arg < 35 => util.result = 35
    /\ util.arg > 45 => util.result = 45
    /\ util.result \in 35..45

\* A negative request was mapped to 35.
C13_Witness ==
  /\ util.fn = "parseTargetTemperatureToRange"
  /\ util.pc = "done"
  /\ util.arg < 0
  /\ util.result = 35

\* C14: parseRinnaiTemperature gives r + 32 for a raw index r in 3..13 and
\* undefined (no number) for every other raw index.
C14_RawIndexToCelsius ==
  (util.fn = "parseRinnaiTemperature" /\ util.pc = "done") =>
    /\ util.arg \in 3..13 => util.result = util.arg + 32
    /\ util.arg \notin 3..13 => util.result = Undefined

\* The raw index just past the table was mapped to undefined.
C14_Witness ==
  /\ util.fn = "parseRinnaiTemperature"
  /\ util.pc = "done"
  /\ util.arg = 14
  /\ util.result = Undefined

\* The heater serves an inc or dec request of the setTargetTemperature call.
StepServed ==
  /\ net["st"].k = "req"
  /\ net["st"].ep \in {"inc", "dec"}
  /\ net'["st"].k = "resp"

\* How far raw index idx is from the index of the mapped request.
Distance(idx) == Abs(idx - (Desired - 32))

\* C15: every inc/dec that the heater executes for the call brings the
\* heater's target one unit closer to the mapped request, so the heater
\* never passes it, also when the step is a retry of one whose answer was
\* lost.
C15_StepTowardsDesiredStep ==
  StepServed => Distance(devIdx') = Distance(devIdx) - 1

\* C15: every step of the heater for the call is a step towards the mapped
\* request.
C15_NoOvershoot == [][C15_StepTowardsDesiredStep]_vars

\* Nothing is outstanding: the poll loop is at its timer, no call started by
\* the set handler is running, no request or answer is on its way.
AllFinished ==
  /\ poll.pc = "sleep"
  /\ \A c \in Convs : ~Running(c)
  /\ \A p \in Procs : net[p] = NoMsg

\* C16: a poll's forced read and a step request of a call have overlapped;
\* once both answers are processed and nothing is outstanding, the cache
\* holds what the heater shows (the state of the request it served last).
C16_NoLostUpdate ==
  (AllFinished /\ lastState # Null)
    => lastState = parseStateParams(DeviceLine(devIdx, devOn, devHeat))

\* A poll of the loop fails in this step.
PollFails == poll.pc = "wait" /\ poll'.pc # "wait" /\ poll'.last = "failed"

\* At most one request of the loop is unsettled, and the loop is either
\* waiting for it or at its timer.
C18_OnePollAtATime ==
  /\ poll.requests <= 1
  /\ poll.pc \in {"wait", "sleep"}
  /\ poll.pc = "wait" <=> (poll.requests = 1 /\ InFlight("poll") /\ net["poll"].ep = "tela_")
  /\ poll.pc = "sleep" <=> (poll.requests = 0 /\ ~InFlight("poll"))

\* C18: the poll loop never has two requests outstanding and never ends; a
\* failed poll leaves this.currentState as it was; after every poll, answered
\* or failed, the next forced read is eventually sent.
C18_PollLoopGoesOn ==
  /\ [](C18_OnePollAtATime)
  /\ [][PollFails => currentState' = currentState]_vars
  /\ ((poll.pc = "sleep") ~> (poll.pc = "wait"))

\* After a failed poll the next one is outstanding, and the state displayed
\* is the one of an earlier poll.
C18_Witness ==
  /\ poll.pc = "wait"
  /\ poll.last = "failed"
  /\ currentState # Null

\* C17: at most one setTargetTemperature call is outstanding: a set request
\* that arrives while a call is running starts no second series of requests.
C17_OneConvergenceAtATime ==
  Cardinality({c \in Convs : Running(c)}) <= 1

\* C19: when setPowerState(turnOn) has returned, the cached isPoweredOn is
\* turnOn, whatever the cache held and whatever the heater's power was.
C19_CacheAtRequestedPower ==
  pw.pc = "done" => (lastState # Null /\ lastState.isPoweredOn = pw.turnOn)

\* C20: with every request answered and fair scheduling, every call that
\* the set handler started ends, also when another call with another target
\* runs at the same time.
C20_EveryConvergenceEnds ==
  \A c \in Convs : Running(c) ~> ~Running(c)

====
